---- MODULE Spec2Model ----
(***************************************************************************)
(* Reliable ordered message channel (ReliableMessageChannel.h): one        *)
(* sending channel and one receiving channel joined by a network that may  *)
(* lose, duplicate and reorder packets.                                    *)
(*                                                                         *)
(* The sending channel's send queue, sent-packet window, time base and     *)
(* counters, and the receiving channel's receive queue, receive id and     *)
(* counters, are the program state.  packets, nextPacket, submitted,       *)
(* delivered, sentAt, ackLog, aborted, processed and last describe the     *)
(* environment and the history of calls; no operation reads them.          *)
(*                                                                         *)
(* Data block receiver (DataBlockReceiver.cpp): one receiver fed with      *)
(* fragments.  Its members are the program state; blockSent,               *)
(* fragmentsProcessed, blockAborted, blockWild and blockLast describe the  *)
(* sender, the process and the history of calls.                           *)
(*                                                                         *)
(* DNS resolver (DNSResolver.cpp): one resolver, the lookups it started    *)
(* and the thread that owns it.  map, in_progress and entries are the      *)
(* program state; resolveCalls, registered and fired are history.          *)
(***************************************************************************)
EXTENDS Integers, Sequences, FiniteSets, TLC

(* ------------------------------------------------------------------ *)
(* Configuration (ReliableMessageChannelConfig), scaled down.          *)
(* ------------------------------------------------------------------ *)
resendRate == 1
sendQueueSize == 2
receiveQueueSize == 2
sentPacketsSize == 2
maxMessagesPerPacket == 2
packetBudget == 8
giveUpBits == 16

(* Bounds of the exploration. *)
MaxResolve == 3
MaxSend == 3
MaxPackets == 2
MaxTime == 1
MaxRead == 4

(* DataBlockReceiver( allocator, fragmentSize, maxBlockSize ), scaled down. *)
m_fragmentSize == 2
m_maxBlockSize == 3

(* Serialized sizes, in bits, a message's Serialize() can produce. *)
MessageSizes == {0, 24}

(* uint16_t ids; uint32_t measuredBits : 15. *)
SeqMod == 65536
MeasuredBitsMod == 32768

MessageIdBits == 16
MessageTypeBits == 4
m_messageOverheadBits == MessageIdBits + MessageTypeBits

(* ------------------------------------------------------------------ *)
(* 16-bit sequence arithmetic.                                         *)
(* ------------------------------------------------------------------ *)
Add16(a, b) == (a + b) % SeqMod
Sub16(a, b) == ((a - b) + SeqMod) % SeqMod

sequence_less_than(a, b) == Sub16(b, a) > 0 /\ Sub16(b, a) < SeqMod \div 2
sequence_greater_than(a, b) == sequence_less_than(b, a)

(* ------------------------------------------------------------------ *)
(* SlidingWindow<T>: an array of `size` slots, slot of seq is seq % size. *)
(* ------------------------------------------------------------------ *)
SlotIndex(size, seq) == seq % size

HasSlotAvailable(w, size, seq) ==
    \/ ~w[SlotIndex(size, seq)].valid
    \/ Sub16(seq, w[SlotIndex(size, seq)].sequence) >= size

WindowInsert(w, size, entry) ==
    IF HasSlotAvailable(w, size, entry.sequence)
    THEN [ok |-> TRUE, w |-> [w EXCEPT ![SlotIndex(size, entry.sequence)] = entry]]
    ELSE [ok |-> FALSE, w |-> w]

Find(w, size, seq) ==
    w[SlotIndex(size, seq)].valid /\ w[SlotIndex(size, seq)].sequence = seq

(* ------------------------------------------------------------------ *)
(* Entries.  A message is [id, size, body]: body tells submissions     *)
(* apart, size is what Serialize() writes.                             *)
(* ------------------------------------------------------------------ *)
NoMessage == [id |-> 0, size |-> 0, body |-> -1]

EmptySendQueueEntry ==
    [valid |-> FALSE, sequence |-> 0, measuredBits |-> 0, timeLastSent |-> -1,
     message |-> NoMessage]

SendQueueEntry(message, sequence) ==
    [valid |-> TRUE, sequence |-> sequence, measuredBits |-> 0, timeLastSent |-> -1,
     message |-> message]

EmptySentPacketEntry ==
    [valid |-> FALSE, sequence |-> 0, acked |-> FALSE, timeSent |-> 0, messageIds |-> <<>>]

EmptyReceiveQueueEntry ==
    [valid |-> FALSE, sequence |-> 0, message |-> NoMessage]

ReceiveQueueEntry(message, sequence) ==
    [valid |-> TRUE, sequence |-> sequence, message |-> message]

VARIABLES
    m_config,            \* both channels: the configuration they were constructed with
    m_timeBase,          \* sender: time of the last Update
    m_sendMessageId,     \* sender: id for the next message added to the send queue
    m_sendQueue,         \* sender: SlidingWindow<SendQueueEntry>
    m_sentPackets,       \* sender: SlidingWindow<SentPacketEntry>
    m_receiveMessageId,  \* receiver: id of the next message to be received
    m_receiveQueue,      \* receiver: SlidingWindow<ReceiveQueueEntry>
    m_counters,          \* MessagesSent/Written of the sender, the rest of the receiver
    packets,             \* network: every payload GetData returned, by packet sequence
    nextPacket,          \* the connection's next packet sequence number
    submitted,           \* history: messages accepted by SendMessage, in order
    delivered,           \* history: messages returned by ReceiveMessage, in order
    sentAt,              \* history: [id, time] of every inclusion by GetData, in order
    ackLog,              \* history: the messageIds of every packet ProcessAck released
    aborted,             \* the receiving process died on a failed assert
    processed,           \* history: sequences of the packets handed to ProcessData
    last,                \* the last call and its outcome
    m_blockSize,             \* block receiver: adopted block size, 0 before the first fragment
    m_numFragments,          \* block receiver: adopted fragment count, 0 before the first
    m_numReceivedFragments,  \* block receiver: fragments marked received
    m_error,                 \* block receiver: sticky error code
    m_receivedFragment,      \* block receiver: one flag per fragment, m_maxFragments of them
    m_data,                  \* block receiver: buffer of m_maxBlockSize bytes
    m_block,                 \* block receiver: the Block view GetBlock hands out
    blockSent,               \* the block the sender is transmitting, [size, block]
    fragmentsProcessed,      \* history: ids of the sender's fragments processed since Clear
    blockAborted,            \* the process died on a failed assert or a crash
    blockWild,               \* memory outside the receiver's two arrays was written (once
                             \* at most: a second such call is not explored)
    blockLast,               \* the last block receiver call, its acks and its outcome
    map,                     \* resolver: name -> entry, Null when the name has none
    in_progress,             \* resolver: name -> entry whose lookup is polled by Update
    entries,                 \* resolver: every ResolveEntry allocated, in order
    resolveCalls,            \* history: number of Resolve calls made
    registered,              \* history: [callback, name, entry] of every callback given
    fired                    \* history: [callback, name, result] of every callback call

channelVars == <<m_config, m_timeBase, m_sendMessageId, m_sendQueue, m_sentPackets,
                 m_receiveMessageId, m_receiveQueue, m_counters, packets, nextPacket,
                 submitted, delivered, sentAt, ackLog, aborted, processed, last>>

receiverMembers == <<m_blockSize, m_numFragments, m_numReceivedFragments, m_error,
                     m_receivedFragment, m_data, m_block>>

blockVars == <<receiverMembers, blockSent, fragmentsProcessed, blockAborted, blockWild,
               blockLast>>

dnsVars == <<map, in_progress, entries, resolveCalls, registered, fired>>

vars == <<channelVars, blockVars, dnsVars>>

senderVars == <<m_timeBase, m_sendMessageId, m_sendQueue, m_sentPackets>>
receiverVars == <<m_receiveMessageId, m_receiveQueue>>

(* ------------------------------------------------------------------ *)
(* DataBlockReceiver: constructor and Clear.                           *)
(* ------------------------------------------------------------------ *)
m_maxFragments ==
    m_maxBlockSize \div m_fragmentSize + (IF m_maxBlockSize % m_fragmentSize # 0 THEN 1 ELSE 0)

DATA_BLOCK_RECEIVER_ERROR_BLOCK_TOO_LARGE == 1

(* A byte of the buffer that was allocated and never written. *)
Indeterminate == 256

(* Blocks a sender may hold; byte k of block b. *)
Blocks == {1, 2}
BlockByte(block, k) == block * 16 + k

NoBlock == [size |-> 0, block |-> 0]

Disconnected == [connected |-> FALSE, size |-> 0]

NoBlockCall == [op |-> "none", acks |-> <<>>, result |-> "none"]

(* Fault variant: Clear leaves the error code as it is. *)
ClearedError_Kept(error) == error

ClearedError(error) == 0

BlockInit ==
    /\ m_blockSize = 0
    /\ m_numFragments = 0
    /\ m_numReceivedFragments = 0
    /\ m_error = 0
    /\ m_block = Disconnected
    /\ m_receivedFragment = [i \in 0..(m_maxFragments - 1) |-> 0]
    /\ m_data = [k \in 0..(m_maxBlockSize - 1) |-> Indeterminate]
    /\ blockSent = NoBlock
    /\ fragmentsProcessed = {}
    /\ blockAborted = FALSE
    /\ blockWild = FALSE
    /\ blockLast = NoBlockCall

(* ------------------------------------------------------------------ *)
(* DNSResolver: entries, constructor.                                  *)
(* ------------------------------------------------------------------ *)
RESOLVE_IN_PROGRESS == "RESOLVE_IN_PROGRESS"
RESOLVE_SUCCEEDED == "RESOLVE_SUCCEEDED"
RESOLVE_FAILED == "RESOLVE_FAILED"

(* Names in the order std::map iterates them. *)
Names == <<"a", "b">>

NameSet == {Names[k] : k \in 1..Len(Names)}

(* nullptr, as a map value, a callback and a lookup result. *)
Null == 0

(* What DNSResolve_Blocking can return: nullptr or a list of addresses. *)
Addresses == 1
LookupResults == {Null, Addresses}

(* new ResolveEntry() with the first callback and the future of the lookup *)
(* started for it.                                                         *)
ResolveEntry(name, callbacks) ==
    [name |-> name, status |-> RESOLVE_IN_PROGRESS, callbacks |-> callbacks,
     result |-> Null, future |-> [ready |-> FALSE, value |-> Null]]

DnsInit ==
    /\ map = [n \in NameSet |-> Null]
    /\ in_progress = [n \in NameSet |-> Null]
    /\ entries = <<>>
    /\ resolveCalls = 0
    /\ registered = {}
    /\ fired = <<>>

(* The configuration value the specifications vary; every other value of *)
(* the configuration is the same in all of them.                          *)
Config(queueSize) == [receiveQueueSize |-> queueSize]

NoCall == [op |-> "none", seq |-> 0, ids |-> <<>>, result |-> "none"]

Init ==
    /\ m_config = Config(receiveQueueSize)
    /\ m_timeBase = 0
    /\ m_sendMessageId = 0
    /\ m_receiveMessageId = 0
    /\ m_sendQueue = [i \in 0..(sendQueueSize - 1) |-> EmptySendQueueEntry]
    /\ m_sentPackets = [i \in 0..(sentPacketsSize - 1) |-> EmptySentPacketEntry]
    /\ m_receiveQueue = [i \in 0..(m_config.receiveQueueSize - 1) |->
                            EmptyReceiveQueueEntry]
    /\ m_counters = [MessagesSent |-> 0, MessagesWritten |-> 0, MessagesRead |-> 0,
                     MessagesReceived |-> 0, MessagesDiscardedLate |-> 0,
                     MessagesDiscardedEarly |-> 0]
    /\ packets = {}
    /\ nextPacket = 0
    /\ submitted = <<>>
    /\ delivered = <<>>
    /\ sentAt = <<>>
    /\ ackLog = <<>>
    /\ aborted = FALSE
    /\ processed = {}
    /\ last = NoCall
    /\ BlockInit
    /\ DnsInit

(* ------------------------------------------------------------------ *)
(* CanSendMessage / SendMessage                                        *)
(* ------------------------------------------------------------------ *)
CanSendMessage == HasSlotAvailable(m_sendQueue, sendQueueSize, m_sendMessageId)

MeasuredBits(message) == (message.size + m_messageOverheadBits) % MeasuredBitsMod

(* Fault variant: the send id is incremented without wrapping at 2^16. *)
NextSendId_NoWrap(sendMessageId) == sendMessageId + 1

NextSendId(sendMessageId) == Add16(sendMessageId, 1)

SendMessage(size) ==
    /\ Len(submitted) < MaxSend
    /\ LET message == [id |-> m_sendMessageId, size |-> size, body |-> Len(submitted)]
           entry == [SendQueueEntry(message, m_sendMessageId)
                        EXCEPT !.measuredBits = MeasuredBits(message)]
           ins == WindowInsert(m_sendQueue, sendQueueSize, entry)
       IN IF ~CanSendMessage
          THEN /\ last' = [op |-> "SendMessage", seq |-> m_sendMessageId, ids |-> <<>>,
                           result |-> "QueueOverflow"]
               /\ UNCHANGED <<m_sendQueue, m_sendMessageId, m_counters, submitted>>
          ELSE /\ m_sendQueue' = ins.w
               /\ m_counters' = [m_counters EXCEPT !.MessagesSent = @ + 1]
               /\ m_sendMessageId' = NextSendId(m_sendMessageId)
               /\ submitted' = Append(submitted, message)
               /\ last' = [op |-> "SendMessage", seq |-> m_sendMessageId, ids |-> <<>>,
                           result |-> "ok"]
    /\ UNCHANGED <<blockVars, dnsVars>>
    /\ UNCHANGED <<m_config, m_timeBase, m_sentPackets, receiverVars, packets, nextPacket,
                   delivered, sentAt, ackLog, aborted, processed>>

(* ------------------------------------------------------------------ *)
(* Update                                                              *)
(* ------------------------------------------------------------------ *)
Update(time) ==
    /\ m_timeBase' = time
    /\ last' = [op |-> "Update", seq |-> 0, ids |-> <<>>, result |-> "ok"]
    /\ UNCHANGED <<blockVars, dnsVars>>
    /\ UNCHANGED <<m_config, m_sendMessageId, m_sendQueue, m_sentPackets, receiverVars, m_counters,
                   packets, nextPacket, submitted, delivered, sentAt, ackLog,
                   aborted, processed>>

(* ------------------------------------------------------------------ *)
(* GetData                                                             *)
(* ------------------------------------------------------------------ *)
(* Fault variant: the scan starts at the newest id instead of the oldest. *)
FindOldest_Newest(i, foundMessage, oldestMessageId) ==
    [foundMessage |-> \E slot \in DOMAIN m_sendQueue : m_sendQueue[slot].valid,
     oldestMessageId |-> Sub16(m_sendMessageId, 1)]

RECURSIVE FindOldest(_, _, _)
FindOldest(i, foundMessage, oldestMessageId) ==
    IF i >= sendQueueSize
    THEN [foundMessage |-> foundMessage, oldestMessageId |-> oldestMessageId]
    ELSE LET baseId == Sub16(m_sendMessageId, sendQueueSize)
             messageId == Add16(baseId, i)
         IN IF /\ Find(m_sendQueue, sendQueueSize, messageId)
               /\ (~foundMessage \/ sequence_less_than(messageId, oldestMessageId))
            THEN FindOldest(i + 1, TRUE, messageId)
            ELSE FindOldest(i + 1, foundMessage, oldestMessageId)

(* Fault variant: no resend spacing test. *)
DueForResend_NoSpacing(entry, time) == TRUE

DueForResend(entry, time) == entry.timeLastSent + resendRate <= time

(* Fault variant: no budget test. *)
FitsBudget_NoBudget(availableBits, entry) == TRUE

FitsBudget(availableBits, entry) == availableBits - entry.measuredBits >= 0

GaveUp(availableBits) == availableBits < giveUpBits

PacketFull(numMessageIds) == numMessageIds = maxMessagesPerPacket

(* Fault variant: an empty selection is sent as a packet. *)
NothingToSend_Never(numMessageIds) == FALSE

NothingToSend(numMessageIds) == numMessageIds = 0

RECURSIVE Gather(_, _, _, _, _)
Gather(i, oldestMessageId, availableBits, messageIds, queue) ==
    IF i >= m_config.receiveQueueSize \/ GaveUp(availableBits)
    THEN [messageIds |-> messageIds, queue |-> queue]
    ELSE LET messageId == Add16(oldestMessageId, i)
             slot == SlotIndex(sendQueueSize, messageId)
             entry == queue[slot]
             take == /\ Find(queue, sendQueueSize, messageId)
                     /\ DueForResend(entry, m_timeBase)
                     /\ FitsBudget(availableBits, entry)
             ids2 == IF take THEN Append(messageIds, messageId) ELSE messageIds
             queue2 == IF take THEN [queue EXCEPT ![slot].timeLastSent = m_timeBase]
                       ELSE queue
             bits2 == IF take THEN availableBits - entry.measuredBits ELSE availableBits
         IN IF PacketFull(Len(ids2))
            THEN [messageIds |-> ids2, queue |-> queue2]
            ELSE Gather(i + 1, oldestMessageId, bits2, ids2, queue2)

InsertFast(w, size, sequence) ==
    [w EXCEPT ![SlotIndex(size, sequence)] =
        [EmptySentPacketEntry EXCEPT !.valid = TRUE, !.sequence = sequence]]

GetData(sequence) ==
    /\ nextPacket < MaxPackets
    /\ sequence = nextPacket
    /\ nextPacket' = nextPacket + 1
    /\ LET oldest == FindOldest(0, FALSE, 0)
           got == Gather(0, oldest.oldestMessageId, packetBudget * 8, <<>>, m_sendQueue)
           numMessageIds == Len(got.messageIds)
       IN IF ~oldest.foundMessage \/ NothingToSend(numMessageIds)
          THEN /\ last' = [op |-> "GetData", seq |-> sequence, ids |-> <<>>,
                           result |-> "null"]
               /\ m_sendQueue' = IF oldest.foundMessage THEN got.queue ELSE m_sendQueue
               /\ UNCHANGED <<m_sentPackets, m_counters, packets, sentAt>>
          ELSE /\ m_sendQueue' = got.queue
               /\ m_sentPackets' =
                     [InsertFast(m_sentPackets, sentPacketsSize, sequence)
                        EXCEPT ![SlotIndex(sentPacketsSize, sequence)].acked = FALSE,
                               ![SlotIndex(sentPacketsSize, sequence)].timeSent = m_timeBase,
                               ![SlotIndex(sentPacketsSize, sequence)].messageIds =
                                    got.messageIds]
               /\ m_counters' = [m_counters EXCEPT !.MessagesWritten = @ + numMessageIds]
               /\ packets' = packets \cup
                     {[seq |-> sequence,
                       messages |-> [k \in 1..numMessageIds |->
                           got.queue[SlotIndex(sendQueueSize, got.messageIds[k])].message]]}
               /\ sentAt' = sentAt \o [k \in 1..numMessageIds |->
                                          [id |-> got.messageIds[k], time |-> m_timeBase]]
               /\ last' = [op |-> "GetData", seq |-> sequence, ids |-> got.messageIds,
                           result |-> "data"]
    /\ UNCHANGED <<blockVars, dnsVars>>
    /\ UNCHANGED <<m_config, m_timeBase, m_sendMessageId, receiverVars, submitted,
                   delivered, ackLog, aborted, processed>>

(* ------------------------------------------------------------------ *)
(* ProcessAck                                                          *)
(* ------------------------------------------------------------------ *)
(* Fault variant: an ack releases nothing. *)
ReleaseAcked_Nothing(messageIds, k, queue) == queue

RECURSIVE ReleaseAcked(_, _, _)
ReleaseAcked(messageIds, k, queue) ==
    IF k > Len(messageIds)
    THEN queue
    ELSE LET messageId == messageIds[k]
             slot == SlotIndex(sendQueueSize, messageId)
         IN IF Find(queue, sendQueueSize, messageId)
            THEN ReleaseAcked(messageIds, k + 1,
                    [queue EXCEPT ![slot].valid = FALSE, ![slot].message = NoMessage])
            ELSE ReleaseAcked(messageIds, k + 1, queue)

ProcessAck(ack) ==
    /\ LET slot == SlotIndex(sentPacketsSize, ack)
           sentPacket == m_sentPackets[slot]
       IN IF ~Find(m_sentPackets, sentPacketsSize, ack) \/ sentPacket.acked
          THEN /\ last' = [op |-> "ProcessAck", seq |-> ack, ids |-> <<>>,
                           result |-> "ignored"]
               /\ UNCHANGED <<m_sendQueue, m_sentPackets, ackLog>>
          ELSE /\ ackLog' = Append(ackLog, sentPacket.messageIds)
               /\ m_sendQueue' = ReleaseAcked(sentPacket.messageIds, 1, m_sendQueue)
               /\ m_sentPackets' = [m_sentPackets EXCEPT ![slot].acked = TRUE]
               /\ last' = [op |-> "ProcessAck", seq |-> ack,
                           ids |-> sentPacket.messageIds, result |-> "acked"]
    /\ UNCHANGED <<blockVars, dnsVars>>
    /\ UNCHANGED <<m_config, m_timeBase, m_sendMessageId, receiverVars, m_counters, packets,
                   nextPacket, submitted, delivered, sentAt, aborted, processed>>

(* ------------------------------------------------------------------ *)
(* ProcessData                                                         *)
(* ------------------------------------------------------------------ *)
IsLate(messageId, minMessageId) == sequence_less_than(messageId, minMessageId)

IsEarly(messageId, maxMessageId) == sequence_greater_than(messageId, maxMessageId)

RECURSIVE ProcessMessages(_, _, _, _, _, _)
ProcessMessages(messages, k, minMessageId, queue, counters, earlyMessage) ==
    IF k > Len(messages)
    THEN [queue |-> queue, counters |-> counters, earlyMessage |-> earlyMessage,
          assertFailed |-> FALSE]
    ELSE LET message == messages[k]
             messageId == message.id
             maxMessageId == Sub16(Add16(minMessageId, m_config.receiveQueueSize), 1)
             read(c) == [c EXCEPT !.MessagesRead = @ + 1]
         IN IF IsLate(messageId, minMessageId)
            THEN ProcessMessages(messages, k + 1, minMessageId, queue,
                    read([counters EXCEPT !.MessagesDiscardedLate = @ + 1]), earlyMessage)
            ELSE IF IsEarly(messageId, maxMessageId)
            THEN ProcessMessages(messages, k + 1, minMessageId, queue,
                    read([counters EXCEPT !.MessagesDiscardedEarly = @ + 1]), TRUE)
            ELSE LET ins == WindowInsert(queue, m_config.receiveQueueSize,
                                         ReceiveQueueEntry(message, messageId))
                 IN IF ~ins.ok
                    THEN [queue |-> ins.w, counters |-> counters,
                          earlyMessage |-> earlyMessage, assertFailed |-> TRUE]
                    ELSE ProcessMessages(messages, k + 1, minMessageId, ins.w,
                            read(counters), earlyMessage)

(* Messages read since the initial state: the counters start at whatever  *)
(* the channel had counted before it, and MessagesReceived moves in step   *)
(* with the history of returned messages.                                  *)
MessagesReadSinceStart ==
    m_counters.MessagesRead - (m_counters.MessagesReceived - Len(delivered))

ProcessData(packet) ==
    /\ ~aborted
    /\ MessagesReadSinceStart + Len(packet.messages) <= MaxRead
    /\ LET done == ProcessMessages(packet.messages, 1, m_receiveMessageId,
                                   m_receiveQueue, m_counters, FALSE)
           result == IF done.assertFailed THEN "AssertFailed"
                     ELSE IF done.earlyMessage THEN "EarlyMessage" ELSE "ok"
       IN /\ m_receiveQueue' = done.queue
          /\ m_counters' = done.counters
          /\ aborted' = done.assertFailed
          /\ processed' = IF done.assertFailed THEN processed
                           ELSE processed \cup {packet.seq}
          /\ last' = [op |-> "ProcessData", seq |-> packet.seq,
                      ids |-> [k \in 1..Len(packet.messages) |-> packet.messages[k].id],
                      result |-> result]
    /\ UNCHANGED <<blockVars, dnsVars>>
    /\ UNCHANGED <<m_config, senderVars, m_receiveMessageId, packets, nextPacket, submitted,
                   delivered, sentAt, ackLog>>

(* ------------------------------------------------------------------ *)
(* ReceiveMessage                                                      *)
(* ------------------------------------------------------------------ *)
(* Fault variant: the receive id is not advanced. *)
NextReceiveId_Stuck(receiveMessageId) == receiveMessageId

NextReceiveId(receiveMessageId) == Add16(receiveMessageId, 1)

ReceiveMessage ==
    /\ ~aborted
    /\ LET slot == SlotIndex(m_config.receiveQueueSize, m_receiveMessageId)
           entry == m_receiveQueue[slot]
       IN IF ~Find(m_receiveQueue, m_config.receiveQueueSize, m_receiveMessageId)
          THEN /\ last' = [op |-> "ReceiveMessage", seq |-> m_receiveMessageId,
                           ids |-> <<>>, result |-> "null"]
               /\ UNCHANGED <<m_receiveQueue, m_receiveMessageId, m_counters, delivered>>
          ELSE /\ m_receiveQueue' = [m_receiveQueue EXCEPT ![slot].valid = FALSE,
                                                          ![slot].message = NoMessage]
               /\ m_counters' = [m_counters EXCEPT !.MessagesReceived = @ + 1]
               /\ m_receiveMessageId' = NextReceiveId(m_receiveMessageId)
               /\ delivered' = Append(delivered, entry.message)
               /\ last' = [op |-> "ReceiveMessage", seq |-> m_receiveMessageId,
                           ids |-> <<entry.message.id>>, result |-> "message"]
    /\ UNCHANGED <<blockVars, dnsVars>>
    /\ UNCHANGED <<m_config, senderVars, packets, nextPacket, submitted, sentAt,
                   ackLog, aborted, processed>>

(* ------------------------------------------------------------------ *)
(* DataBlockReceiver::Clear                                            *)
(* ------------------------------------------------------------------ *)
Clear ==
    /\ ~blockAborted
    /\ m_blockSize' = 0
    /\ m_numFragments' = 0
    /\ m_numReceivedFragments' = 0
    /\ m_error' = ClearedError(m_error)
    /\ m_block' = Disconnected
    /\ m_receivedFragment' = [i \in 0..(m_maxFragments - 1) |-> 0]
    /\ blockLast' = [op |-> "Clear", acks |-> <<>>, result |-> "ok"]
    /\ UNCHANGED <<m_data, blockAborted, blockWild>>
    /\ UNCHANGED <<channelVars, dnsVars>>

(* ------------------------------------------------------------------ *)
(* DataBlockReceiver::ProcessFragment                                  *)
(* ------------------------------------------------------------------ *)
(* The members as a record, and what a call leaves behind. *)
Members ==
    [blockSize |-> m_blockSize, numFragments |-> m_numFragments,
     numReceivedFragments |-> m_numReceivedFragments, error |-> m_error,
     receivedFragment |-> m_receivedFragment, data |-> m_data]

Outcome(members, acks, result, died, wild) ==
    [members |-> members, acks |-> acks, result |-> result, aborted |-> died,
     wild |-> wild]

(* Fault variant: a fragment that was already received is stored again. *)
IsNewFragment_Always(flag) == TRUE

IsNewFragment(flag) == flag = 0

(* memcpy( m_data + start, fragmentData, fragmentBytes ) *)
CopyFragment(data, start, fragmentData, fragmentBytes) ==
    [k \in DOMAIN data |->
        IF k >= start /\ k < start + fragmentBytes THEN fragmentData[k - start + 1]
        ELSE data[k]]

CopyIsWild(start, fragmentBytes) ==
    \E k \in start..(start + fragmentBytes - 1) : k \notin 0..(m_maxBlockSize - 1)

(* What lines 95-104 can do once the ack is out.  The flag of a fragment   *)
(* id outside the array reads as either value; a failed PROTOCOL_ASSERT    *)
(* ends the process in a build that checks it and is a no-op in one that   *)
(* does not; a negative byte count makes memcpy run off the address space. *)
StoreOutcomes(mem, fragmentId, start, fragmentBytes, fragmentData) ==
    LET inArray == fragmentId \in 0..(m_maxFragments - 1)
        flags == IF inArray THEN {mem.receivedFragment[fragmentId]} ELSE {0, 1}
        acks == <<fragmentId>>
        marked == [mem EXCEPT
                     !.receivedFragment =
                        IF inArray THEN [@ EXCEPT ![fragmentId] = 1] ELSE @,
                     !.numReceivedFragments = @ + 1]
        copied == [marked EXCEPT
                     !.data = CopyFragment(@, start, fragmentData, fragmentBytes)]
        countOk == marked.numReceivedFragments <= marked.numFragments
        wild == ~inArray \/ CopyIsWild(start, fragmentBytes)
    IN UNION {
         IF ~IsNewFragment(flag)
         THEN {Outcome(mem, acks, "acked", FALSE, FALSE)}
         ELSE (IF countOk THEN {}
               ELSE {Outcome(marked, acks, "aborted", TRUE, ~inArray)})
              \cup
              (IF fragmentBytes < 0
               THEN {Outcome(marked, acks, "aborted", TRUE, TRUE)}
               ELSE {Outcome(copied, acks, "acked", FALSE, wild)})
         : flag \in flags}

ProcessFragmentOutcomes(blockSize, numFragments, fragmentId, fragmentBytes, fragmentData) ==
    LET mem == Members
        adoptedSize == [mem EXCEPT !.blockSize = IF @ = 0 THEN blockSize ELSE @]
        adopted == [adoptedSize EXCEPT !.numFragments = IF @ = 0 THEN numFragments ELSE @]
        start == fragmentId * m_fragmentSize
        finish == start + fragmentBytes
        dropped(members) == {Outcome(members, <<>>, "dropped", FALSE, FALSE)}
    IN IF blockSize > m_maxBlockSize
       THEN {Outcome([mem EXCEPT !.error = DATA_BLOCK_RECEIVER_ERROR_BLOCK_TOO_LARGE],
                     <<>>, "BlockTooLarge", FALSE, FALSE)}
       ELSE IF mem.error # 0 THEN dropped(mem)
       ELSE IF adoptedSize.blockSize # blockSize THEN dropped(adoptedSize)
       ELSE IF adoptedSize.numFragments > m_maxFragments THEN dropped(adoptedSize)
       ELSE IF adopted.numFragments # numFragments THEN dropped(adopted)
       ELSE IF fragmentId >= adopted.numFragments THEN dropped(adopted)
       ELSE IF finish > adopted.blockSize
       THEN dropped(adopted) \cup {Outcome(adopted, <<>>, "aborted", TRUE, FALSE)}
       ELSE StoreOutcomes(adopted, fragmentId, start, fragmentBytes, fragmentData)

ProcessFragment(blockSize, numFragments, fragmentId, fragmentBytes, fragmentData) ==
    /\ ~blockAborted
    /\ \E o \in ProcessFragmentOutcomes(blockSize, numFragments, fragmentId,
                                        fragmentBytes, fragmentData) :
          /\ ~(blockWild /\ o.wild)
          /\ m_blockSize' = o.members.blockSize
          /\ m_numFragments' = o.members.numFragments
          /\ m_numReceivedFragments' = o.members.numReceivedFragments
          /\ m_error' = o.members.error
          /\ m_receivedFragment' = o.members.receivedFragment
          /\ m_data' = o.members.data
          /\ blockAborted' = o.aborted
          /\ blockWild' = (blockWild \/ o.wild)
          /\ blockLast' = [op |-> "ProcessFragment", acks |-> o.acks, result |-> o.result]
    /\ UNCHANGED m_block
    /\ UNCHANGED <<channelVars, dnsVars>>

(* ------------------------------------------------------------------ *)
(* DataBlockReceiver::GetBlock                                         *)
(* ------------------------------------------------------------------ *)
ReceiveCompleted == m_numReceivedFragments = m_numFragments

GetBlock ==
    /\ ~blockAborted
    /\ IF ReceiveCompleted /\ m_blockSize > 0
       THEN /\ m_block' = [connected |-> TRUE, size |-> m_blockSize]
            /\ blockLast' = [op |-> "GetBlock", acks |-> <<>>, result |-> "block"]
       ELSE /\ m_block' = m_block
            /\ blockLast' = [op |-> "GetBlock", acks |-> <<>>, result |-> "null"]
    /\ UNCHANGED <<m_blockSize, m_numFragments, m_numReceivedFragments, m_error,
                   m_receivedFragment, m_data, blockAborted, blockWild>>
    /\ UNCHANGED <<channelVars, dnsVars>>

(* ------------------------------------------------------------------ *)
(* The sender of a block and the fragments it makes.                   *)
(* ------------------------------------------------------------------ *)
NumFragmentsOf(size) ==
    size \div m_fragmentSize + (IF size % m_fragmentSize # 0 THEN 1 ELSE 0)

FragmentBytesOf(size, fragmentId) ==
    IF (fragmentId + 1) * m_fragmentSize <= size THEN m_fragmentSize
    ELSE size - fragmentId * m_fragmentSize

FragmentData(block, start, fragmentBytes) ==
    [k \in 1..fragmentBytes |-> BlockByte(block, start + k - 1)]

(* The sender turns to a new block and the receiver is cleared for it. *)
StartBlock(size, block) ==
    /\ Clear
    /\ blockSent' = [size |-> size, block |-> block]
    /\ fragmentsProcessed' = {}

(* One fragment of the sender's block arrives. *)
ReceiveFragment(fragmentId) ==
    /\ blockSent # NoBlock
    /\ ProcessFragment(blockSent.size, NumFragmentsOf(blockSent.size), fragmentId,
                       FragmentBytesOf(blockSent.size, fragmentId),
                       FragmentData(blockSent.block, fragmentId * m_fragmentSize,
                                    FragmentBytesOf(blockSent.size, fragmentId)))
    /\ fragmentsProcessed' = fragmentsProcessed \cup {fragmentId}
    /\ UNCHANGED blockSent

(* ------------------------------------------------------------------ *)
(* DNSResolver::Resolve                                                *)
(* ------------------------------------------------------------------ *)
(* callback( name, result ) *)
Fire(calls, callbacks, name, result) ==
    calls \o [k \in 1..Len(callbacks) |->
                 [callback |-> callbacks[k], name |-> name, result |-> result]]

PushBack(callbacks, callback) ==
    IF callback # Null THEN Append(callbacks, callback) ELSE callbacks

Resolve(name, callback) ==
    /\ resolveCalls < MaxResolve
    /\ resolveCalls' = resolveCalls + 1
    /\ IF map[name] # Null
       THEN LET entry == entries[map[name]]
            IN /\ IF entry.status = RESOLVE_IN_PROGRESS
                  THEN /\ entries' = [entries EXCEPT ![map[name]].callbacks =
                                         PushBack(@, callback)]
                       /\ fired' = fired
                  ELSE /\ fired' = Fire(fired, PushBack(<<>>, callback), name,
                                        entry.result)
                       /\ entries' = entries
               /\ registered' = registered \cup
                     {[callback |-> callback, name |-> name, entry |-> map[name]] :
                        c \in {callback} \ {Null}}
               /\ UNCHANGED <<map, in_progress>>
       ELSE LET entry == Len(entries) + 1
            IN /\ entries' = Append(entries, ResolveEntry(name, PushBack(<<>>, callback)))
               /\ map' = [map EXCEPT ![name] = entry]
               /\ in_progress' = [in_progress EXCEPT ![name] = entry]
               /\ registered' = registered \cup
                     {[callback |-> callback, name |-> name, entry |-> entry] :
                        c \in {callback} \ {Null}}
               /\ fired' = fired
    /\ UNCHANGED <<channelVars, blockVars>>

(* The thread std::async started returns from DNSResolve_Blocking. *)
LookupCompletes(entry, result) ==
    /\ entry \in DOMAIN entries
    /\ ~entries[entry].future.ready
    /\ entries' = [entries EXCEPT ![entry].future = [ready |-> TRUE, value |-> result]]
    /\ UNCHANGED <<map, in_progress, resolveCalls, registered, fired>>
    /\ UNCHANGED <<channelVars, blockVars>>

(* ------------------------------------------------------------------ *)
(* DNSResolver::Update                                                 *)
(* ------------------------------------------------------------------ *)
FutureReady(name) ==
    in_progress[name] # Null /\ entries[in_progress[name]].future.ready

RECURSIVE UpdateCalls(_, _)
UpdateCalls(k, calls) ==
    IF k > Len(Names)
    THEN calls
    ELSE IF FutureReady(Names[k])
         THEN LET entry == entries[in_progress[Names[k]]]
              IN UpdateCalls(k + 1, Fire(calls, entry.callbacks, Names[k],
                                         entry.future.value))
         ELSE UpdateCalls(k + 1, calls)

DnsUpdate ==
    /\ entries' = [e \in DOMAIN entries |->
                     IF \E name \in NameSet :
                           FutureReady(name) /\ in_progress[name] = e
                     THEN [entries[e] EXCEPT
                             !.result = entries[e].future.value,
                             !.status = IF entries[e].future.value # Null
                                        THEN RESOLVE_SUCCEEDED ELSE RESOLVE_FAILED]
                     ELSE entries[e]]
    /\ fired' = UpdateCalls(1, fired)
    /\ in_progress' = [name \in NameSet |->
                          IF FutureReady(name) THEN Null ELSE in_progress[name]]
    /\ UNCHANGED <<map, resolveCalls, registered>>
    /\ UNCHANGED <<channelVars, blockVars>>

(* ------------------------------------------------------------------ *)
(* DNSResolver::Clear                                                  *)
(* ------------------------------------------------------------------ *)
DnsClear ==
    /\ map' = [name \in NameSet |-> Null]
    /\ UNCHANGED <<in_progress, entries, resolveCalls, registered, fired>>
    /\ UNCHANGED <<channelVars, blockVars>>

Next ==
    \/ \E size \in MessageSizes : SendMessage(size)
    \/ \E time \in (m_timeBase + 1)..MaxTime : Update(time)
    \/ GetData(nextPacket)
    \/ \E ack \in 0..(nextPacket - 1) : ProcessAck(ack)
    \/ \E packet \in packets : ProcessData(packet)
    \/ ReceiveMessage

Spec == Init /\ [][Next]_vars

(* The sending channel alone: its calls in any order, acks arriving for    *)
(* any packet numbered so far.  No call of the sender reads the receiver's *)
(* state.                                                                  *)
SenderNext ==
    \/ \E size \in MessageSizes : SendMessage(size)
    \/ \E time \in (m_timeBase + 1)..MaxTime : Update(time)
    \/ GetData(nextPacket)
    \/ \E ack \in 0..(nextPacket - 1) : ProcessAck(ack)

SenderSpec == Init /\ [][SenderNext]_vars

(* The pair after WrapStartId messages went through it at time 0: message *)
(* k was sent alone in packet k + 2, read once and returned, and every     *)
(* packet was acked.  The queues are empty again, both ids stand two below *)
(* the 16-bit boundary, the packet sequence has just wrapped to 0 and the  *)
(* sent-packet window holds the acked entries of the last packets.  The    *)
(* receive window has the capacity of the other specifications or one      *)
(* more.                                                                   *)
WrapStartId == SeqMod - 2

LastPacketInSlot(i) ==
    CHOOSE s \in (SeqMod - sentPacketsSize)..(SeqMod - 1) : SlotIndex(sentPacketsSize, s) = i

WrapInit ==
    /\ m_config \in {Config(receiveQueueSize), Config(receiveQueueSize + 1)}
    /\ m_timeBase = 0
    /\ m_sendMessageId = WrapStartId
    /\ m_receiveMessageId = WrapStartId
    /\ m_sendQueue = [i \in 0..(sendQueueSize - 1) |-> EmptySendQueueEntry]
    /\ m_sentPackets = [i \in 0..(sentPacketsSize - 1) |->
                           [valid |-> TRUE, sequence |-> LastPacketInSlot(i),
                            acked |-> TRUE, timeSent |-> 0,
                            messageIds |-> <<LastPacketInSlot(i) - 2>>]]
    /\ m_receiveQueue = [i \in 0..(m_config.receiveQueueSize - 1) |->
                            EmptyReceiveQueueEntry]
    /\ m_counters = [MessagesSent |-> WrapStartId, MessagesWritten |-> WrapStartId,
                     MessagesRead |-> WrapStartId, MessagesReceived |-> WrapStartId,
                     MessagesDiscardedLate |-> 0, MessagesDiscardedEarly |-> 0]
    /\ packets = {}
    /\ nextPacket = 0
    /\ submitted = <<>>
    /\ delivered = <<>>
    /\ sentAt = <<>>
    /\ ackLog = <<>>
    /\ aborted = FALSE
    /\ processed = {}
    /\ last = NoCall
    /\ BlockInit
    /\ DnsInit

WrapSpec == WrapInit /\ [][Next]_vars

(* The sender after SeqMod messages.  Message 0 went out in packet 0,      *)
(* whose ack was lost, and again in packet 1, which was acked.  Every      *)
(* later message was sent in a packet of odd sequence and acked before the *)
(* next GetData call, so every GetData call with an even sequence found    *)
(* the send queue empty, returned null and wrote no sent-packet entry.     *)
(* The send id and the packet sequence have wrapped to 0; slot 0 of the    *)
(* sent-packet window still holds the entry of the first packet 0, slot 1  *)
(* the acked entry of the last packet.  Time is counted from this state.   *)
StaleInit ==
    /\ m_config = Config(receiveQueueSize)
    /\ m_timeBase = 0
    /\ m_sendMessageId = 0
    /\ m_receiveMessageId = 0
    /\ m_sendQueue = [i \in 0..(sendQueueSize - 1) |-> EmptySendQueueEntry]
    /\ m_sentPackets = [i \in 0..(sentPacketsSize - 1) |->
                           IF i = 0
                           THEN [valid |-> TRUE, sequence |-> 0, acked |-> FALSE,
                                 timeSent |-> -resendRate, messageIds |-> <<0>>]
                           ELSE [valid |-> TRUE, sequence |-> LastPacketInSlot(i),
                                 acked |-> TRUE, timeSent |-> 0,
                                 messageIds |-> <<SeqMod - 1>>]]
    /\ m_receiveQueue = [i \in 0..(m_config.receiveQueueSize - 1) |->
                            EmptyReceiveQueueEntry]
    /\ m_counters = [MessagesSent |-> SeqMod, MessagesWritten |-> SeqMod + 1,
                     MessagesRead |-> SeqMod, MessagesReceived |-> SeqMod,
                     MessagesDiscardedLate |-> 0, MessagesDiscardedEarly |-> 0]
    /\ packets = {}
    /\ nextPacket = 0
    /\ submitted = <<>>
    /\ delivered = <<>>
    /\ sentAt = <<>>
    /\ ackLog = <<>>
    /\ aborted = FALSE
    /\ processed = {}
    /\ last = NoCall
    /\ BlockInit
    /\ DnsInit

StaleSpec == StaleInit /\ [][SenderNext]_vars

(* The pair over a transport that acks a packet only after its payload was *)
(* handed to ProcessData and the call came back.                           *)
GatedNext ==
    \/ \E size \in MessageSizes : SendMessage(size)
    \/ \E time \in (m_timeBase + 1)..MaxTime : Update(time)
    \/ GetData(nextPacket)
    \/ \E ack \in processed : ProcessAck(ack)
    \/ \E packet \in packets : ProcessData(packet)
    \/ ReceiveMessage

GatedSpec == Init /\ [][GatedNext]_vars

(* The same pair with a receiving application that calls ReceiveMessage    *)
(* until it returns null after every ProcessData: the next payload is      *)
(* processed, and the ack of a processed packet reaches the sender, only   *)
(* when ReceiveMessage has nothing more to return.                         *)
Drained == ~Find(m_receiveQueue, m_config.receiveQueueSize, m_receiveMessageId)

DrainedNext ==
    \/ \E size \in MessageSizes : SendMessage(size)
    \/ \E time \in (m_timeBase + 1)..MaxTime : Update(time)
    \/ GetData(nextPacket)
    \/ \E ack \in processed : Drained /\ ProcessAck(ack)
    \/ \E packet \in packets : Drained /\ ProcessData(packet)
    \/ ReceiveMessage

DrainedSpec == Init /\ [][DrainedNext]_vars

(* The block receiver fed by one sender: block after block, each block's   *)
(* fragments in any order, any number of times.                            *)
ReassemblyNext ==
    \/ \E size \in 1..m_maxBlockSize, block \in Blocks : StartBlock(size, block)
    \/ \E fragmentId \in 0..(NumFragmentsOf(blockSent.size) - 1) :
          ReceiveFragment(fragmentId)
    \/ GetBlock /\ UNCHANGED <<blockSent, fragmentsProcessed>>

ReassemblySpec == Init /\ [][ReassemblyNext]_vars

(* The block receiver fed with arbitrary fragments. *)
BlockSizeArgs == (m_maxBlockSize - 1)..(m_maxBlockSize + 1)
NumFragmentsArgs == 0..(m_maxFragments + 1)
FragmentIdArgs == -1..m_maxFragments
FragmentBytesArgs == -1..m_fragmentSize

BlockNext ==
    \/ Clear /\ UNCHANGED <<blockSent, fragmentsProcessed>>
    \/ \E blockSize \in BlockSizeArgs, numFragments \in NumFragmentsArgs,
          fragmentId \in FragmentIdArgs, fragmentBytes \in FragmentBytesArgs,
          block \in Blocks :
          /\ ProcessFragment(blockSize, numFragments, fragmentId, fragmentBytes,
                             FragmentData(block, fragmentId * m_fragmentSize,
                                          fragmentBytes))
          /\ UNCHANGED <<blockSent, fragmentsProcessed>>
    \/ GetBlock /\ UNCHANGED <<blockSent, fragmentsProcessed>>

BlockSpec == Init /\ [][BlockNext]_vars

(* The resolver: Resolve, Update and Clear called in any order by the one  *)
(* thread that owns it, the k-th Resolve call with callback k or without   *)
(* one, and lookups finishing at any time with either result.  The host    *)
(* calls Update every frame and getaddrinfo returns, so an Update that     *)
(* would do something and a lookup that is running are not put off for     *)
(* ever.                                                                   *)
DnsNext ==
    \/ \E name \in NameSet, callback \in {Null, resolveCalls + 1} :
          Resolve(name, callback)
    \/ \E entry \in DOMAIN entries, result \in LookupResults :
          LookupCompletes(entry, result)
    \/ DnsUpdate
    \/ DnsClear

DnsFairness ==
    /\ WF_vars(DnsUpdate)
    /\ \A entry \in 1..MaxResolve :
          WF_vars(\E result \in LookupResults : LookupCompletes(entry, result))

DnsSpec == Init /\ [][DnsNext]_vars /\ DnsFairness

(* ================================================================== *)
(* Properties                                                          *)
(* ================================================================== *)
Range(s) == {s[k] : k \in 1..Len(s)}

Released == UNION {Range(ackLog[k]) : k \in 1..Len(ackLog)}

InReceiveWindow(messageId, minMessageId) ==
    Sub16(messageId, minMessageId) < m_config.receiveQueueSize

BeforeWindow(messageId, minMessageId) ==
    ~InReceiveWindow(messageId, minMessageId)
    /\ Sub16(minMessageId, messageId) < SeqMod \div 2

AfterWindow(messageId, minMessageId) ==
    ~InReceiveWindow(messageId, minMessageId) /\ ~BeforeWindow(messageId, minMessageId)

RECURSIVE SumMeasuredBits(_, _)
SumMeasuredBits(ids, k) ==
    IF k > Len(ids) THEN 0
    ELSE m_sendQueue[SlotIndex(sendQueueSize, ids[k])].measuredBits
         + SumMeasuredBits(ids, k + 1)

(* C1: the messages ReceiveMessage returned so far carry ids 0, 1, 2, ...  *)
(* in order, and the k-th one returned is the k-th one submitted.          *)
C1_InOrderDelivery ==
    /\ Len(delivered) <= Len(submitted)
    /\ \A k \in 1..Len(delivered) :
          /\ delivered[k].id = (k - 1) % SeqMod
          /\ delivered[k] = submitted[k]

(* Three messages were returned although a payload arrived again after its *)
(* messages had been dequeued.                                             *)
C1_Witness ==
    /\ Len(delivered) >= 3
    /\ m_counters.MessagesDiscardedLate >= 1

(* C2: every message accepted by SendMessage is eventually returned by     *)
(* ReceiveMessage.  Stated as what a finite run can refute: a message that *)
(* was accepted and not yet returned is still held by the send queue, by   *)
(* the receive queue or by a payload that was handed to the network, since *)
(* ReceiveMessage can only ever return a message from one of these.        *)
C2_NoMessageLost ==
    \A k \in 1..Len(submitted) :
        \/ k <= Len(delivered)
        \/ \E i \in DOMAIN m_receiveQueue :
              m_receiveQueue[i].valid /\ m_receiveQueue[i].message = submitted[k]
        \/ \E i \in DOMAIN m_sendQueue :
              m_sendQueue[i].valid /\ m_sendQueue[i].message = submitted[k]
        \/ \E packet \in packets : submitted[k] \in Range(packet.messages)

(* C3: a message accepted by SendMessage is found in the send queue under  *)
(* its id, unchanged, until ProcessAck acks a packet that listed it.       *)
C3_UnackedStaysQueued ==
    \A k \in 1..Len(submitted) :
        submitted[k].id \notin Released =>
            /\ Find(m_sendQueue, sendQueueSize, submitted[k].id)
            /\ m_sendQueue[SlotIndex(sendQueueSize, submitted[k].id)].message = submitted[k]

(* C4: ProcessData of a payload all of whose ids are already in the        *)
(* receive queue ends normally and leaves the receive queue and            *)
(* next_receive_id as they were.                                           *)
C4_DuplicatePayloadHarmless ==
    [][\A packet \in packets :
          (/\ ProcessData(packet)
           /\ \A k \in 1..Len(packet.messages) :
                 Find(m_receiveQueue, m_config.receiveQueueSize, packet.messages[k].id))
          => (/\ last'.result = "ok"
              /\ ~aborted'
              /\ m_receiveQueue' = m_receiveQueue
              /\ m_receiveMessageId' = m_receiveMessageId)]_vars

(* C5: after ProcessAck(p), whose sent-packet entry lists id i, the send   *)
(* queue does not hold i and the entry is acked; if i had been released by *)
(* an earlier ack, the call leaves i's slot of the send queue untouched.   *)
C5_AckReleasesSlot ==
    [][\A ack \in 0..(MaxPackets - 1) :
          (ProcessAck(ack) /\ Find(m_sentPackets, sentPacketsSize, ack))
          => LET slot == SlotIndex(sentPacketsSize, ack)
                 ids == Range(m_sentPackets[slot].messageIds)
             IN /\ Find(m_sentPackets', sentPacketsSize, ack)
                /\ m_sentPackets'[slot].acked
                /\ \A i \in ids : ~Find(m_sendQueue', sendQueueSize, i)
                /\ \A i \in ids \cap Released :
                      m_sendQueue'[SlotIndex(sendQueueSize, i)] =
                          m_sendQueue[SlotIndex(sendQueueSize, i)]]_vars

(* Two packets that listed the same id have both been acked. *)
C5_Witness ==
    /\ last.op = "ProcessAck" /\ last.result = "acked"
    /\ Len(ackLog) >= 2
    /\ Range(ackLog[1]) \cap Range(ackLog[Len(ackLog)]) # {}

(* C6: two inclusions of the same message id by GetData are at least       *)
(* resend_rate apart in time.                                              *)
C6_ResendSpacing ==
    \A a, b \in 1..Len(sentAt) :
        (a < b /\ sentAt[a].id = sentAt[b].id)
        => sentAt[b].time >= sentAt[a].time + resendRate

(* A message was included a second time. *)
C6_Witness ==
    \E a, b \in 1..Len(sentAt) :
        /\ a < b
        /\ sentAt[a].id = sentAt[b].id
        /\ sentAt[b].time = sentAt[a].time + resendRate

(* C7: the measured bits of the messages a GetData call returned sum to at *)
(* most packet_budget * 8.                                                 *)
C7_BudgetRespected ==
    (last.op = "GetData" /\ last.result = "data")
    => SumMeasuredBits(last.ids, 1) <= packetBudget * 8

(* GetData left out a message that was due only because it did not fit. *)
C7_Witness ==
    /\ last.op = "GetData" /\ last.result = "data"
    /\ Len(last.ids) < maxMessagesPerPacket
    /\ \E i \in DOMAIN m_sendQueue :
          /\ m_sendQueue[i].valid
          /\ DueForResend(m_sendQueue[i], m_timeBase)
          /\ m_sendQueue[i].sequence = Add16(last.ids[Len(last.ids)], 1)
          /\ SumMeasuredBits(last.ids, 1) + m_sendQueue[i].measuredBits > packetBudget * 8

C9_WindowClamp ==
    [][\A packet \in packets :
          ProcessData(packet)
          => LET min == m_receiveMessageId
                 msgs == packet.messages
                 late == {k \in 1..Len(msgs) : BeforeWindow(msgs[k].id, min)}
                 early == {k \in 1..Len(msgs) : AfterWindow(msgs[k].id, min)}
             IN /\ \A i \in DOMAIN m_receiveQueue :
                      m_receiveQueue'[i] # m_receiveQueue[i]
                      => /\ m_receiveQueue'[i].valid
                         /\ InReceiveWindow(m_receiveQueue'[i].sequence, min)
                         /\ m_receiveQueue'[i].message \in Range(msgs)
                /\ m_counters'.MessagesDiscardedLate =
                      m_counters.MessagesDiscardedLate + Cardinality(late)
                /\ m_counters'.MessagesDiscardedEarly =
                      m_counters.MessagesDiscardedEarly + Cardinality(early)
                /\ m_counters'.MessagesRead = m_counters.MessagesRead + Len(msgs)]_vars

(* C10: ProcessData fails with EarlyMessage exactly when the payload holds *)
(* an id after the window, and only after the whole payload was processed: *)
(* its in-window messages are in the receive queue and its late ones are   *)
(* counted.                                                                *)
C10_EarlyMessageExactly ==
    [][\A packet \in packets :
          ProcessData(packet)
          => LET min == m_receiveMessageId
                 msgs == packet.messages
                 late == {k \in 1..Len(msgs) : BeforeWindow(msgs[k].id, min)}
             IN /\ (last'.result = "EarlyMessage")
                      <=> (\E k \in 1..Len(msgs) : AfterWindow(msgs[k].id, min))
                /\ \A k \in 1..Len(msgs) :
                      InReceiveWindow(msgs[k].id, min)
                      => Find(m_receiveQueue', m_config.receiveQueueSize, msgs[k].id)
                /\ m_counters'.MessagesDiscardedLate =
                      m_counters.MessagesDiscardedLate + Cardinality(late)]_vars

OldestUnacked ==
    {m_sendQueue[i].sequence : i \in {j \in DOMAIN m_sendQueue :
        /\ m_sendQueue[j].valid
        /\ \A k \in DOMAIN m_sendQueue :
              m_sendQueue[k].valid
              => ~sequence_less_than(m_sendQueue[k].sequence, m_sendQueue[j].sequence)}}

(* C12: while the sender holds an unacked message, the receiver's          *)
(* next_receive_id minus the sender's oldest unacked id, modulo 2^16, is   *)
(* at most receive_queue_size.                                             *)
C12_ReceiverWithinWindow ==
    \A oldest \in OldestUnacked :
        Sub16(m_receiveMessageId, oldest) <= m_config.receiveQueueSize

(* C13: with both ids started two below 2^16, GetData scans from the       *)
(* oldest queued id in wrapped order and lists the ids it packs in send    *)
(* order; ProcessData takes every id of the receive window into the        *)
(* receive queue, also when the window spans the boundary, and dies only   *)
(* on a message that is already queued; ReceiveMessage returns the         *)
(* messages in the order they were submitted, 65534, 65535, 0.             *)
C13_WrapAround ==
    [][/\ (GetData(nextPacket) /\ last'.result = "data")
          => \A oldest \in OldestUnacked :
                /\ \A a \in 1..Len(last'.ids) :
                      Sub16(last'.ids[a], oldest) < m_config.receiveQueueSize
                /\ \A a, b \in 1..Len(last'.ids) :
                      a < b => sequence_less_than(last'.ids[a], last'.ids[b])
       /\ \A packet \in packets :
             ProcessData(packet)
             => LET msgs == packet.messages
                    queued == {k \in 1..Len(msgs) :
                                 Find(m_receiveQueue, m_config.receiveQueueSize, msgs[k].id)}
                IN /\ aborted' => queued # {}
                   /\ ~aborted' =>
                         \A k \in 1..Len(msgs) :
                            InReceiveWindow(msgs[k].id, m_receiveMessageId)
                            => Find(m_receiveQueue', m_config.receiveQueueSize, msgs[k].id)
       /\ ReceiveMessage
          => /\ Len(delivered') <= Len(submitted)
             /\ \A k \in 1..Len(delivered') :
                   /\ delivered'[k] = submitted[k]
                   /\ delivered'[k].id = Add16(WrapStartId, k - 1)]_vars

(* The bytes a Block of the given size shows: the head of the buffer. *)
BlockBytes(size) == [k \in 0..(size - 1) |-> m_data[k]]

SentBytes == [k \in 0..(blockSent.size - 1) |-> BlockByte(blockSent.block, k)]

AllFragmentsProcessed ==
    /\ blockSent # NoBlock
    /\ fragmentsProcessed = 0..(NumFragmentsOf(blockSent.size) - 1)

(* C14: once a cleared receiver has processed every fragment of the        *)
(* sender's block at least once, in any order and with any repeats, the    *)
(* receive is complete with the sender's block size, the head of the       *)
(* buffer equals the sender's bytes, and a GetBlock call returns a Block   *)
(* of that size; processing a fragment again changes neither the buffer,   *)
(* nor the flags, nor the received count.                                  *)
C14_Reassembly ==
    /\ [](AllFragmentsProcessed
           => /\ ReceiveCompleted
              /\ m_blockSize = blockSent.size
              /\ BlockBytes(m_blockSize) = SentBytes
              /\ blockLast.op = "GetBlock"
                    => /\ blockLast.result = "block"
                       /\ m_block = [connected |-> TRUE, size |-> blockSent.size])
    /\ [][\A fragmentId \in fragmentsProcessed :
             ReceiveFragment(fragmentId)
             => /\ m_data' = m_data
                /\ m_receivedFragment' = m_receivedFragment
                /\ m_numReceivedFragments' = m_numReceivedFragments]_vars

(* GetBlock returned a block of the largest size, made of more than one   *)
(* fragment, with the sender's bytes.                                      *)
C14_Witness ==
    /\ AllFragmentsProcessed
    /\ blockLast.op = "GetBlock" /\ blockLast.result = "block"
    /\ blockSent.size = m_maxBlockSize
    /\ NumFragmentsOf(blockSent.size) > 1
    /\ BlockBytes(m_maxBlockSize) = SentBytes

(* The admissibility test of the specification, on the receiver's state    *)
(* before the call.                                                        *)
Admissible(blockSize, numFragments, fragmentId, fragmentBytes) ==
    /\ blockSize <= m_maxBlockSize
    /\ m_error = 0
    /\ m_blockSize = 0 \/ m_blockSize = blockSize
    /\ m_numFragments = 0 \/ m_numFragments = numFragments
    /\ fragmentId < numFragments
    /\ fragmentId * m_fragmentSize + fragmentBytes <= blockSize

(* C15: a ProcessFragment call emits exactly one ack, for its fragment id, *)
(* when the fragment is admissible (whether or not it was received         *)
(* before), and otherwise emits no ack and leaves the buffer, the flags    *)
(* and the received count as they were.                                    *)
C15_AckIffAdmissible ==
    [][\A blockSize \in BlockSizeArgs, numFragments \in NumFragmentsArgs,
          fragmentId \in FragmentIdArgs, fragmentBytes \in FragmentBytesArgs,
          block \in Blocks :
          ProcessFragment(blockSize, numFragments, fragmentId, fragmentBytes,
                          FragmentData(block, fragmentId * m_fragmentSize,
                                       fragmentBytes))
          => IF Admissible(blockSize, numFragments, fragmentId, fragmentBytes)
             THEN blockLast'.acks = <<fragmentId>>
             ELSE /\ blockLast'.acks = <<>>
                  /\ m_data' = m_data
                  /\ m_receivedFragment' = m_receivedFragment
                  /\ m_numReceivedFragments' = m_numReceivedFragments]_vars

BlockTooLarge == m_error = DATA_BLOCK_RECEIVER_ERROR_BLOCK_TOO_LARGE

(* C16: a ProcessFragment call with a block size above the maximum sets    *)
(* the BlockTooLarge error; while the error is set every ProcessFragment   *)
(* and GetBlock call leaves it set, and a ProcessFragment call emits no    *)
(* ack, marks no fragment and copies no byte; Clear puts block size,       *)
(* fragment count, received count, every flag and the error back to their  *)
(* values after construction.                                              *)
C16_StickyUntilClear ==
    [][/\ blockLast'.op = "ProcessFragment" /\ blockLast'.result = "BlockTooLarge"
          => BlockTooLarge'
       /\ BlockTooLarge /\ blockLast'.op = "ProcessFragment"
          => /\ BlockTooLarge'
             /\ blockLast'.acks = <<>>
             /\ m_receivedFragment' = m_receivedFragment
             /\ m_numReceivedFragments' = m_numReceivedFragments
             /\ m_data' = m_data
       /\ BlockTooLarge /\ blockLast'.op = "GetBlock" => BlockTooLarge'
       /\ blockLast'.op = "Clear"
          => /\ m_blockSize' = 0
             /\ m_numFragments' = 0
             /\ m_numReceivedFragments' = 0
             /\ m_receivedFragment' = [i \in 0..(m_maxFragments - 1) |-> 0]
             /\ m_error' = 0
             /\ m_block' = Disconnected]_vars

(* The error was raised in the middle of a reassembly and a later fragment *)
(* was dropped because of it.                                              *)
C16_Witness ==
    /\ BlockTooLarge
    /\ blockLast = [op |-> "ProcessFragment", acks |-> <<>>, result |-> "dropped"]
    /\ m_numReceivedFragments > 0
    /\ m_numReceivedFragments < m_numFragments

(* One of the adopted number of fragments has no received flag. *)
FragmentMissing ==
    \E i \in 0..(m_numFragments - 1) :
       i \notin DOMAIN m_receivedFragment \/ m_receivedFragment[i] = 0

(* C19: a GetBlock call returns a block only when no fragment of the       *)
(* adopted count is missing and the block size is positive, and the block  *)
(* it returns has the adopted block size; it returns null while the block  *)
(* size is 0 (nothing processed yet, or just cleared) and while a fragment *)
(* is missing.                                                             *)
C19_GetBlockOnlyWhenComplete ==
    blockLast.op = "GetBlock"
    => /\ blockLast.result = "block"
          => /\ ~FragmentMissing
             /\ m_blockSize > 0
             /\ m_block = [connected |-> TRUE, size |-> m_blockSize]
       /\ m_blockSize = 0 \/ FragmentMissing => blockLast.result = "null"

(* The selection of the specification, on the sender's state before the    *)
(* call: the oldest queued id, then ids oldest+0, oldest+1, ... in turn.   *)
QueuedIds == {m_sendQueue[slot].sequence : slot \in {s \in DOMAIN m_sendQueue : m_sendQueue[s].valid}}

QueuedEntry(id) ==
    m_sendQueue[CHOOSE slot \in DOMAIN m_sendQueue :
                   m_sendQueue[slot].valid /\ m_sendQueue[slot].sequence = id]

OldestQueued ==
    CHOOSE id \in QueuedIds : \A other \in QueuedIds : ~sequence_less_than(other, id)

RECURSIVE GreedyScan(_, _, _)
GreedyScan(i, remaining, selected) ==
    IF \/ i > m_config.receiveQueueSize - 1
       \/ remaining < giveUpBits
       \/ Len(selected) = maxMessagesPerPacket
    THEN selected
    ELSE LET id == Add16(OldestQueued, i)
         IN IF /\ id \in QueuedIds
               /\ QueuedEntry(id).timeLastSent + resendRate <= m_timeBase
               /\ QueuedEntry(id).measuredBits <= remaining
            THEN GreedyScan(i + 1, remaining - QueuedEntry(id).measuredBits,
                            Append(selected, id))
            ELSE GreedyScan(i + 1, remaining, selected)

GreedySelection ==
    IF QueuedIds = {} THEN <<>> ELSE GreedyScan(0, packetBudget * 8, <<>>)

C18_NullChangesNothing ==
    [][/\ GetData(nextPacket) /\ last'.result = "null"
          => UNCHANGED <<m_sentPackets, m_sendQueue, m_counters, packets>>
       /\ \A ack \in 0..(nextPacket - 1) :
             (ProcessAck(ack) /\ ~\E packet \in packets : packet.seq = ack)
             => UNCHANGED m_sendQueue]_vars

HasFired(callback) == \E k \in 1..Len(fired) : fired[k].callback = callback

(* C20: every callback given to Resolve is eventually called; a callback   *)
(* is called only for the name it was given with and with the result of    *)
(* the lookup of the entry it was given for; a callback given for an entry *)
(* that has already succeeded or failed is called inside that Resolve      *)
(* call; and no lookup is started for a name that has an entry.            *)
C20_CallbacksFire ==
    /\ \A callback \in 1..MaxResolve :
          (\E r \in registered : r.callback = callback) ~> HasFired(callback)
    /\ [](\A k \in 1..Len(fired) :
            \E r \in registered :
               /\ r.callback = fired[k].callback
               /\ r.name = fired[k].name
               /\ entries[r.entry].future.ready
               /\ fired[k].result = entries[r.entry].future.value)
    /\ [][\A name \in NameSet, callback \in 1..MaxResolve :
             Resolve(name, callback)
             => /\ map[name] # Null => Len(entries') = Len(entries)
                /\ (map[name] # Null
                    /\ entries[map[name]].status # RESOLVE_IN_PROGRESS)
                   => HasFired(callback)']_vars

(* C21: over a transport that hands ProcessData only payloads GetData      *)
(* made and acks only processed packets, with an application that drains   *)
(* ReceiveMessage after every ProcessData, no message is classified as     *)
(* early: MessagesDiscardedEarly stays 0 and no ProcessData call reports   *)
(* EarlyMessage.                                                           *)
C21_NeverEarly ==
    /\ m_counters.MessagesDiscardedEarly = 0
    /\ ~(last.op = "ProcessData" /\ last.result = "EarlyMessage")

(* C22: every message a ProcessAck call releases from the send queue is    *)
(* one of the message instances GetData put in the packet with the acked   *)
(* sequence; a sent-packet entry left from an earlier use of that sequence *)
(* releases nothing that was not sent in the acked packet.                 *)
C22_AckReleasesOnlySent ==
    [][\A ack \in 0..(MaxPackets - 1) :
          ProcessAck(ack)
          => \A slot \in DOMAIN m_sendQueue :
                (m_sendQueue[slot].valid /\ ~m_sendQueue'[slot].valid)
                => \E packet \in packets :
                      /\ packet.seq = ack
                      /\ \E k \in 1..Len(packet.messages) :
                            packet.messages[k] = m_sendQueue[slot].message]_vars

FlagsSet == {i \in DOMAIN m_receivedFragment : m_receivedFragment[i] # 0}

(* C23: the received count equals the number of set flags and lies between *)
(* 0 and the adopted fragment count, and no ProcessFragment call, whatever *)
(* its arguments, has written a flag outside the flag array or a byte      *)
(* outside the buffer.                                                     *)
C23_WithinBounds ==
    /\ m_numReceivedFragments = Cardinality(FlagsSet)
    /\ 0 <= m_numReceivedFragments
    /\ m_numReceivedFragments <= m_numFragments
    /\ ~blockWild
====
